---- MODULE Spec2Model ----
(***************************************************************************)
(* libqsbr: epoch-based reclamation (ebr.c), the G/C engine built on it    *)
(* (gc.c), quiescent-state-based reclamation (qsbr.c) and the clients of   *)
(* the stress test (t_stress.c), as interleaved state machines.  Memory is *)
(* sequentially consistent: the steps of the threads interleave and every  *)
(* load yields the latest store (the library brackets its accesses with    *)
(* seq_cst fences or uses atomic read-modify-write operations).            *)
(*                                                                         *)
(* One step of a worker is one access to shared memory together with the   *)
(* private computation that follows it.  gc_cycle()/gc_full() callers are  *)
(* serialised (the contract of ebr_sync), so the accesses of the caller to *)
(* epoch_list[], which no other thread touches, ride along with the        *)
(* neighbouring shared access.                                             *)
(***************************************************************************)
EXTENDS Integers, Sequences, FiniteSets, TLC

\* ------------------------------------------------------------- bounds
NReaders == 2
NGcWorkers == 2
NObjs == 2
MaxGen == 3

\* ---------------------------------------------------- program constants
EBR_EPOCHS == 3
NULL == 0
QSBR_FIRST_EPOCH == 1

\* Thread 0 of the stress test is the writer, the others are readers.
Writer == 0
Readers == 1..NReaders
Workers == {Writer} \cup Readers
Objs == 1..NObjs
Epochs == 0..(EBR_EPOCHS - 1)

VARIABLES
    \* struct ebr
    global_epoch,   \* ebr->global_epoch
    local_epoch,    \* per worker: ebr_tls_t.local_epoch, as [active, epoch]
    list,           \* ebr->list: the registered slots, head first
    list_loop,      \* 0: the last slot ends the list (le_next = NULL); k > 0: the
                    \* last slot links back to the k-th one
    \* struct gc
    limbo,          \* gc->limbo: stack of entries, head first
    epoch_list,     \* gc->epoch_list[EBR_EPOCHS]
    \* data_struct_t ds[] of the stress test
    visible,        \* obj->visible
    ptr,            \* obj->ptr: TRUE = &magic_val, FALSE = NULL (destroyed)
    obj_gc_epoch,   \* obj->gc_epoch (the tag ebr_writer keeps)
    \* struct qsbr
    q_global,       \* qs->global_epoch
    q_local,        \* per worker: qsbr_tls_t.local_epoch
    q_list,         \* qs->list, head first
    \* per thread: where it is and its locals
    pc,
    e_epoch,        \* ebr_enter: epoch / qsbr_checkpoint: the value loaded
    a_obj,          \* access_obj / writers: the object at hand
    l_head,         \* gc_limbo: head
    s_epoch,        \* ebr_sync: epoch
    s_scan,         \* ebr_sync / qsbr_sync: the slots LIST_FOREACH has yet to visit
    s_ret,          \* ebr_sync / qsbr_sync: the value returned
    s_out,          \* ebr_sync: *gc_epoch
    c_count,        \* gc_cycle: count
    in_full,        \* the thread runs gc_cycle on behalf of gc_full
    q_target,       \* qsbr_writer: target_epoch
    h_since,        \* per worker: the generation its last qsbr_checkpoint() since
                    \* the latest qsbr_barrier() stored, 0 if there was none
    h_scan0,        \* the list as the running qsbr_sync() found it
    \* history (read by the properties only)
    seen,           \* per worker: objects read visible in the current critical section
    h_syncs,        \* per object: successful ebr_sync calls since its gc_limbo (capped)
    h_owed,         \* per object: completed gc_limbo calls less the times it was
                    \* handed to the reclaim callback
    h_hold,         \* per worker: entries that were in limbo during its critical section
    h_held,         \* entries not yet reclaimed that were in limbo during some
                    \* critical section
    h_call,         \* summary of the gc_cycle call in progress
    h_track,        \* whether h_hold and h_call are kept in this run
    freed,          \* the workers whose ebr_tls_t slot has been passed to free()
    h_stage,        \* per object: the global epoch when gc_cycle() moved it from
                    \* limbo to an epoch list, -1 if it is on no epoch list
    h_true,         \* per worker: ebr_sync() calls that announced an epoch since
                    \* its ebr_enter() stored the slot (capped)
    h_count,        \* whether h_true is kept in this run
    h_overlap,      \* a gc_cycle() call has begun while another was running
    h_bar,          \* the values qsbr_barrier() has returned, in order
    h_done          \* the slots that the first qsbr_sync() to return true for the
                    \* target at hand had scanned, {} before the caller repeats it

ebrVars == <<global_epoch, local_epoch, list, list_loop>>
gcVars == <<limbo, epoch_list>>
objVars == <<visible, ptr, obj_gc_epoch>>
qsbrVars == <<q_global, q_local, q_list, q_target, h_since, h_scan0>>
syncVars == <<s_epoch, s_scan, s_ret, s_out>>
localVars == <<e_epoch, a_obj, l_head, c_count, in_full>>
histVars == <<seen, h_syncs, h_owed, h_hold, h_held, h_call, h_track>>
moreVars == <<freed, h_stage, h_true, h_count, h_overlap, h_bar, h_done>>
vars == <<ebrVars, gcVars, objVars, qsbrVars, pc, syncVars, localVars, histVars, moreVars>>

\* ------------------------------------------------------------ helpers
Range(s) == {s[i] : i \in 1..Len(s)}

Min(a, b) == IF a < b THEN a ELSE b

\* The least member of a set of numbers up to EBR_EPOCHS (EBR_EPOCHS if empty).
LowestOf(S) == IF S = {} THEN EBR_EPOCHS ELSE CHOOSE x \in S : \A y \in S : x <= y

\* How often o occurs in the list s.
Occurs(s, o) == Cardinality({i \in 1..Len(s) : s[i] = o})

\* ------------------------------------------------------------ ebr.c
\* The local epoch word: epoch | ACTIVE_FLAG, or 0.
Inactive == [active |-> FALSE, epoch |-> 0]

\* A slot word that loses the active flag.
WithoutActive(e) == [active |-> FALSE, epoch |-> e]

\* ebr_enter(): epoch | ACTIVE_FLAG.
WithActive(e) == [active |-> TRUE, epoch |-> e]

\* ebr_staging_epoch(): the current epoch.
ebr_staging_epoch == global_epoch

\* A reclaim epoch one step too young: e-1 instead of e-2.
GcEpochOfYoung(g) == (g + 2) % 3

\* ebr_gc_epoch() on a global epoch g: e-2 is the next epoch, clock arithmetic.
GcEpochOf(g) == (g + 1) % 3

ebr_gc_epoch == GcEpochOf(global_epoch)

\* A test that forgets the active flag.
NotReadyStale(slot, epoch) == slot # WithActive(epoch)

\* A scan that lets every slot pass.
NotReadyNever(slot, epoch) == FALSE

\* The test of the LIST_FOREACH body of ebr_sync(): the slot is active and
\* has not observed `epoch`.
NotReady(slot, epoch) == slot.active /\ slot # WithActive(epoch)

\* An increment that forgets the clock arithmetic.
NextEpochNoWrap(epoch) == epoch + 1

\* The epoch ebr_sync() announces.
NextEpoch(epoch) == (epoch + 1) % 3

\* ebr_register(): allocate the slot if the thread has none, zero it and
\* insert it at the head of the list.
EbrRegister(t) ==
    /\ pc[t] = "idle"
    /\ t \notin Range(list)
    /\ local_epoch' = [local_epoch EXCEPT ![t] = Inactive]
    /\ list' = <<t>> \o list
    /\ list_loop' = IF list_loop = 0 THEN 0 ELSE list_loop + 1
    /\ freed' = freed \ {t}
    /\ UNCHANGED <<global_epoch, gcVars, objVars, qsbrVars, pc, syncVars, localVars, histVars,
                   h_stage, h_true, h_count, h_done, h_overlap, h_bar>>

\* The place of the slot of t on the list.
IndexOf(l, t) == CHOOSE i \in 1..Len(l) : l[i] = t

\* ebr_register() is called by a worker that is registered already:
\* pthread_getspecific() returns its slot, no allocation takes place.
EbrRegisterAgainCall(t) ==
    /\ pc[t] = "idle"
    /\ t \in Range(list)
    /\ t \notin freed
    /\ pc' = [pc EXCEPT ![t] = "reg_again"]
    /\ UNCHANGED <<ebrVars, gcVars, objVars, qsbrVars, syncVars, localVars, histVars,
                   moreVars>>

\* ebr_register() on a slot that is on the list: memset() zeroes the local
\* epoch and the list entry, LIST_INSERT_HEAD() makes the slot the head with
\* the old head as its successor.  The slots that followed it are cut off
\* and its predecessor still links to it: the walk from the head comes back
\* to the head.  A slot that an earlier such call had cut off is inserted
\* like a new one.
EbrRegisterAgain(t) ==
    /\ pc[t] = "reg_again"
    /\ local_epoch' = [local_epoch EXCEPT ![t] = Inactive]
    /\ IF t \in Range(list)
       THEN /\ list' = <<t>> \o SubSeq(list, 1, IndexOf(list, t) - 1)
            /\ list_loop' = 1
       ELSE /\ list' = <<t>> \o list
            /\ list_loop' = IF list_loop = 0 THEN 0 ELSE list_loop + 1
    /\ pc' = [pc EXCEPT ![t] = "idle"]
    /\ UNCHANGED <<global_epoch, gcVars, objVars, qsbrVars, syncVars, localVars, histVars,
                   moreVars>>

\* The list without the slot of t: LIST_REMOVE(t, entry).
ListRemove(l, t) == SelectSeq(l, LAMBDA x : x # t)

\* ebr_unregister(): clear the TLS pointer, remove the slot from the list
\* and free it.
EbrUnregister(t) ==
    /\ pc[t] = "idle"
    /\ t \in Range(list)
    /\ list_loop = 0
    /\ list' = ListRemove(list, t)
    /\ UNCHANGED list_loop
    /\ local_epoch' = [local_epoch EXCEPT ![t] = Inactive]
    /\ freed' = freed \cup {t}
    /\ UNCHANGED <<global_epoch, gcVars, objVars, qsbrVars, pc, syncVars, localVars, histVars,
                   h_stage, h_true, h_count, h_done, h_overlap, h_bar>>

\* A registered thread ends with pthread_exit() and no ebr_unregister(), as
\* the threads of the stress test do: the destructor of the TLS key, free(),
\* releases the slot; nothing takes it off the list.
ThreadExit(t) ==
    /\ pc[t] = "idle"
    /\ t \in Range(list)
    /\ pc' = [pc EXCEPT ![t] = "exited"]
    /\ freed' = freed \cup {t}
    /\ UNCHANGED <<ebrVars, gcVars, objVars, qsbrVars, syncVars, localVars, histVars,
                   h_stage, h_true, h_count, h_done, h_overlap, h_bar>>

\* ebr_enter(), first half: load ebr->global_epoch.
EbrEnterLoad(t) ==
    /\ pc[t] = "idle"
    /\ t \in Range(list)
    /\ ~local_epoch[t].active
    /\ e_epoch' = [e_epoch EXCEPT ![t] = global_epoch]
    /\ pc' = [pc EXCEPT ![t] = "enter_store"]
    /\ h_call' = IF h_call.run THEN [h_call EXCEPT !.entered = TRUE] ELSE h_call
    /\ UNCHANGED <<ebrVars, gcVars, objVars, qsbrVars, syncVars, a_obj, l_head, c_count,
                   in_full, seen, h_syncs, h_owed, h_hold, h_held, h_track, moreVars>>

\* ebr_enter(), second half: store epoch | ACTIVE_FLAG into the slot.
EbrEnterStore(t) ==
    /\ pc[t] = "enter_store"
    /\ local_epoch' = [local_epoch EXCEPT ![t] = WithActive(e_epoch[t])]
    /\ e_epoch' = [e_epoch EXCEPT ![t] = 0]
    /\ pc' = [pc EXCEPT ![t] = "idle"]
    /\ h_hold' = [h_hold EXCEPT ![t] = IF h_track THEN Range(limbo) ELSE {}]
    /\ h_true' = [h_true EXCEPT ![t] = 0]
    /\ h_held' = IF h_track THEN h_held \cup Range(limbo) ELSE h_held
    /\ UNCHANGED <<global_epoch, list, list_loop, gcVars, objVars, qsbrVars, syncVars, a_obj, l_head,
                   c_count, in_full, seen, h_syncs, h_owed, h_call, h_track, freed, h_stage, h_count, h_done, h_overlap, h_bar>>

\* ebr_exit(): store 0 into the slot (the ASSERT requires the active flag).
EbrExit(t) ==
    /\ pc[t] = "idle"
    /\ local_epoch[t].active
    /\ local_epoch' = [local_epoch EXCEPT ![t] = Inactive]
    /\ seen' = [seen EXCEPT ![t] = {}]
    /\ h_true' = [h_true EXCEPT ![t] = 0]
    /\ h_hold' = [h_hold EXCEPT ![t] = {}]
    /\ UNCHANGED <<global_epoch, list, list_loop, gcVars, objVars, qsbrVars, pc, syncVars, localVars,
                   h_syncs, h_owed, h_call, h_held, h_track, freed, h_stage, h_count, h_done, h_overlap, h_bar>>

\* ebr_sync(): load the global epoch and start the walk over the list.
SyncLoad(t) ==
    /\ pc[t] = "sync_load"
    /\ s_epoch' = [s_epoch EXCEPT ![t] = global_epoch]
    /\ s_scan' = [s_scan EXCEPT ![t] = list]
    /\ pc' = [pc EXCEPT ![t] = IF list = <<>> THEN "sync_store" ELSE "sync_scan"]
    /\ UNCHANGED <<ebrVars, gcVars, objVars, qsbrVars, s_ret, s_out, localVars, histVars, moreVars>>

\* LIST_FOREACH: the slots still to visit after the one at hand; on a list
\* tied into a loop the walk goes on at the slot the last one links to.
AfterSlot(t) ==
    IF Tail(s_scan[t]) # <<>> \/ list_loop = 0 \/ list_loop > Len(list)
    THEN Tail(s_scan[t])
    ELSE SubSeq(list, list_loop, Len(list))

\* ebr_sync(): one turn of LIST_FOREACH.  A slot that is active in another
\* epoch ends the call: *gc_epoch = ebr_gc_epoch(), return false.
SyncScan(t) ==
    /\ pc[t] = "sync_scan"
    /\ Head(s_scan[t]) \notin freed
    /\ LET slot == local_epoch[Head(s_scan[t])] IN
       IF NotReady(slot, s_epoch[t])
       THEN /\ s_out' = [s_out EXCEPT ![t] = ebr_gc_epoch]
            /\ s_ret' = [s_ret EXCEPT ![t] = FALSE]
            /\ s_scan' = [s_scan EXCEPT ![t] = <<>>]
            /\ pc' = [pc EXCEPT ![t] = "sync_ret"]
       ELSE /\ s_scan' = [s_scan EXCEPT ![t] = AfterSlot(t)]
            /\ pc' = [pc EXCEPT ![t] =
                        IF AfterSlot(t) = <<>> THEN "sync_store" ELSE "sync_scan"]
            /\ UNCHANGED <<s_out, s_ret>>
    /\ UNCHANGED <<ebrVars, gcVars, objVars, qsbrVars, s_epoch, localVars, histVars, moreVars>>

\* ebr_sync(): a turn of LIST_FOREACH at a slot whose memory was freed.  The
\* word read there is whatever the allocator left: the test may take either
\* branch.
SyncScanFreed(t) ==
    /\ pc[t] = "sync_scan"
    /\ Head(s_scan[t]) \in freed
    /\ \E stale \in BOOLEAN :
        IF stale
        THEN /\ s_out' = [s_out EXCEPT ![t] = ebr_gc_epoch]
             /\ s_ret' = [s_ret EXCEPT ![t] = FALSE]
             /\ s_scan' = [s_scan EXCEPT ![t] = <<>>]
             /\ pc' = [pc EXCEPT ![t] = "sync_ret"]
        ELSE /\ s_scan' = [s_scan EXCEPT ![t] = AfterSlot(t)]
             /\ pc' = [pc EXCEPT ![t] =
                         IF AfterSlot(t) = <<>> THEN "sync_store" ELSE "sync_scan"]
             /\ UNCHANGED <<s_out, s_ret>>
    /\ UNCHANGED <<ebrVars, gcVars, objVars, qsbrVars, s_epoch, localVars, histVars, moreVars>>

\* ebr_sync(): announce the new epoch, *gc_epoch = ebr_gc_epoch(), return true.
SyncStore(t) ==
    /\ pc[t] = "sync_store"
    /\ global_epoch' = NextEpoch(s_epoch[t])
    /\ s_out' = [s_out EXCEPT ![t] = GcEpochOf(global_epoch')]
    /\ s_ret' = [s_ret EXCEPT ![t] = TRUE]
    /\ pc' = [pc EXCEPT ![t] = "sync_ret"]
    /\ h_syncs' = [o \in Objs |-> IF h_syncs[o] < 0 THEN h_syncs[o]
                                  ELSE Min(h_syncs[o] + 1, EBR_EPOCHS)]
    /\ h_true' = [w \in Workers |-> IF h_count /\ local_epoch[w].active
                                    THEN Min(h_true[w] + 1, EBR_EPOCHS) ELSE h_true[w]]
    /\ h_call' = IF h_call.run /\ h_call.who = t
                 THEN [h_call EXCEPT !.adv = @ + 1] ELSE h_call
    /\ UNCHANGED <<local_epoch, list, list_loop, gcVars, objVars, qsbrVars, s_epoch, s_scan, localVars,
                   seen, h_owed, h_hold, h_held, h_track, freed, h_stage, h_count, h_done, h_overlap,
                   h_bar>>

\* ------------------------------------------------------------- gc.c
\* The program points at which a thread is inside gc_cycle() or gc_full().
GcPcs == {"sync_load", "sync_scan", "sync_store", "sync_ret", "cyc_reclaim", "full_check"}

\* Some thread is inside gc_cycle()/gc_full(): the callers' mutual exclusion.
GcBusy == \E u \in Workers : pc[u] \in GcPcs

\* All entries on the three epoch lists.
InBins == UNION {Range(epoch_list[e]) : e \in Epochs}

HCallNone == [who |-> Writer, run |-> FALSE, quiet0 |-> FALSE, entered |-> FALSE,
              limbo0 |-> {}, bins0 |-> {}, held0 |-> {}, rec |-> {}, low |-> EBR_EPOCHS,
              adv |-> 0, cb |-> 0]

\* What the properties remember of a gc_cycle() call, taken as it starts.
HCallStart(t) ==
    IF h_track
    THEN [who |-> t, run |-> TRUE,
          quiet0 |-> \A w \in Workers : ~local_epoch[w].active,
          entered |-> \E w \in Workers : pc[w] = "enter_store",
          limbo0 |-> Range(limbo), bins0 |-> InBins, held0 |-> h_held,
          rec |-> {}, low |-> EBR_EPOCHS, adv |-> 0, cb |-> 0]
    ELSE HCallNone

\* The locals of an ebr_sync() call go out of scope (written anew by the next
\* call before they are read).
SyncLocalsDie(t) ==
    /\ s_epoch' = [s_epoch EXCEPT ![t] = 0]
    /\ s_scan' = [s_scan EXCEPT ![t] = <<>>]
    /\ s_ret' = [s_ret EXCEPT ![t] = FALSE]
    /\ s_out' = [s_out EXCEPT ![t] = 0]

\* Where a thread continues when gc_cycle() returns.
CycleEnd(t) == IF in_full[t] THEN "full_check" ELSE "cyc_ret"

\* ebr_sync() called on its own (calls are serialised by the callers).
SyncBegin(t) ==
    /\ pc[t] = "idle"
    /\ ~GcBusy
    /\ pc' = [pc EXCEPT ![t] = "sync_load"]
    /\ UNCHANGED <<ebrVars, gcVars, objVars, qsbrVars, syncVars, localVars, histVars,
                   moreVars>>

\* ebr_sync() returns to such a caller.
SyncReturn(t) ==
    /\ pc[t] = "sync_ret"
    /\ pc' = [pc EXCEPT ![t] = "idle"]
    /\ SyncLocalsDie(t)
    /\ UNCHANGED <<ebrVars, gcVars, objVars, qsbrVars, localVars, histVars, moreVars>>

\* gc_limbo(): head = gc->limbo; ent->next = head.
LimboLoad(t) ==
    /\ pc[t] = "limbo_load"
    /\ l_head' = [l_head EXCEPT ![t] = IF limbo = <<>> THEN NULL ELSE Head(limbo)]
    /\ pc' = [pc EXCEPT ![t] = "limbo_cas"]
    /\ UNCHANGED <<ebrVars, gcVars, objVars, qsbrVars, syncVars, e_epoch, a_obj, c_count,
                   in_full, histVars, moreVars>>

\* The head pointer gc->limbo as the compare-and-swap sees it.
LimboHead == IF limbo = <<>> THEN NULL ELSE Head(limbo)

\* gc_limbo(): atomic_compare_exchange_weak(&gc->limbo, head, ent); a failure
\* repeats the loop.
LimboCas(t) ==
    /\ pc[t] = "limbo_cas"
    /\ IF LimboHead = l_head[t]
       THEN /\ limbo' = <<a_obj[t]>> \o limbo
            /\ a_obj' = [a_obj EXCEPT ![t] = NULL]
            /\ pc' = [pc EXCEPT ![t] = "idle"]
            /\ h_owed' = [h_owed EXCEPT ![a_obj[t]] = @ + 1]
            /\ h_syncs' = [h_syncs EXCEPT ![a_obj[t]] = 0]
            /\ h_hold' = [w \in Workers |->
                            IF h_track /\ local_epoch[w].active
                            THEN h_hold[w] \cup {a_obj[t]}
                            ELSE h_hold[w]]
            /\ h_held' = IF h_track /\ \E w \in Workers : local_epoch[w].active
                         THEN h_held \cup {a_obj[t]} ELSE h_held
       ELSE /\ pc' = [pc EXCEPT ![t] = "limbo_load"]
            /\ UNCHANGED <<limbo, a_obj, h_owed, h_syncs, h_hold, h_held>>
    /\ l_head' = [l_head EXCEPT ![t] = NULL]
    /\ UNCHANGED <<ebrVars, epoch_list, objVars, qsbrVars, syncVars, e_epoch, c_count,
                   in_full, seen, h_call, h_track, moreVars>>

\* A cycle that retries only once.
CycleCountShort == EBR_EPOCHS - 2

\* gc_cycle(): unsigned count = EBR_EPOCHS, the retries left to a call that
\* finds the G/C list empty.
CycleCount == EBR_EPOCHS

\* gc_cycle() is called: count = EBR_EPOCHS.
GcCycleBegin(t) ==
    /\ pc[t] = "idle"
    /\ ~GcBusy
    /\ pc' = [pc EXCEPT ![t] = "sync_load"]
    /\ c_count' = [c_count EXCEPT ![t] = CycleCount]
    /\ h_call' = HCallStart(t)
    /\ UNCHANGED <<ebrVars, gcVars, objVars, qsbrVars, syncVars, e_epoch, a_obj, l_head,
                   in_full, seen, h_syncs, h_owed, h_hold, h_held, h_track, moreVars>>

\* gc_cycle() is called by a worker that takes no lock: another call may be
\* in progress.
GcCycleBeginAny(t) ==
    /\ pc[t] = "idle"
    /\ t \in Range(list)
    /\ pc' = [pc EXCEPT ![t] = "sync_load"]
    /\ c_count' = [c_count EXCEPT ![t] = CycleCount]
    /\ h_call' = HCallStart(t)
    /\ h_overlap' = (h_overlap \/ GcBusy)
    /\ UNCHANGED <<ebrVars, gcVars, objVars, qsbrVars, syncVars, e_epoch, a_obj, l_head,
                   in_full, seen, h_syncs, h_owed, h_hold, h_held, h_track, freed, h_stage,
                   h_true, h_count, h_done, h_bar>>

\* gc_cycle(): ebr_sync() returned false, not ready to reclaim: return.
CycleNotReady(t) ==
    /\ pc[t] = "sync_ret"
    /\ ~s_ret[t]
    /\ pc' = [pc EXCEPT ![t] = CycleEnd(t)]
    /\ c_count' = [c_count EXCEPT ![t] = 0]
    /\ SyncLocalsDie(t)
    /\ h_call' = [h_call EXCEPT !.run = FALSE]
    /\ UNCHANGED <<ebrVars, gcVars, objVars, qsbrVars, e_epoch, a_obj, l_head,
                   in_full, seen, h_syncs, h_owed, h_hold, h_held, h_track, moreVars>>

\* gc_cycle(): ASSERT(gc->epoch_list[staging_epoch] == NULL).
StagingAssert == epoch_list[ebr_staging_epoch] = <<>>

\* A staging step that copies the limbo list and leaves it in place.
CycleStageCopy(t) ==
    /\ pc[t] = "sync_ret"
    /\ s_ret[t]
    /\ epoch_list' = [epoch_list EXCEPT ![ebr_staging_epoch] = limbo]
    /\ h_stage' = [o \in Objs |-> IF o \in Range(limbo) THEN ebr_staging_epoch
                                  ELSE h_stage[o]]
    /\ pc' = [pc EXCEPT ![t] = "cyc_reclaim"]
    /\ UNCHANGED <<ebrVars, limbo, objVars, qsbrVars, syncVars, localVars, histVars, freed, h_true, h_count, h_done, h_overlap, h_bar>>

\* gc_cycle(): move the limbo list into the staging epoch:
\* gc->epoch_list[staging_epoch] = atomic_exchange(&gc->limbo, NULL).
CycleStage(t) ==
    /\ pc[t] = "sync_ret"
    /\ s_ret[t]
    /\ epoch_list' = [epoch_list EXCEPT ![ebr_staging_epoch] = limbo]
    /\ limbo' = <<>>
    /\ h_stage' = [o \in Objs |-> IF o \in Range(limbo) THEN ebr_staging_epoch
                                  ELSE h_stage[o]]
    /\ pc' = [pc EXCEPT ![t] = "cyc_reclaim"]
    /\ UNCHANGED <<ebrVars, objVars, qsbrVars, syncVars, localVars, histVars, freed, h_true, h_count, h_done, h_overlap, h_bar>>

\* The reclaim callback of the stress test, gc_func(): mock_destroy_obj() on
\* every entry of the list.
gc_func(gc_list) == [o \in Objs |-> IF o \in Range(gc_list) THEN FALSE ELSE ptr[o]]

\* A reclaim step that runs the callback and leaves the list in its bin.
CycleReclaimKeep(t) ==
    /\ pc[t] = "cyc_reclaim"
    /\ LET gc_list == epoch_list[s_out[t]] IN
       IF gc_list = <<>> /\ c_count[t] # 0
       THEN /\ c_count' = [c_count EXCEPT ![t] = @ - 1]
            /\ pc' = [pc EXCEPT ![t] = "sync_load"]
            /\ UNCHANGED <<epoch_list, ptr, h_owed, h_syncs, h_call, h_held, h_stage>>
       ELSE /\ ptr' = gc_func(gc_list)
            /\ UNCHANGED epoch_list
            /\ c_count' = [c_count EXCEPT ![t] = 0]
            /\ pc' = [pc EXCEPT ![t] = CycleEnd(t)]
            /\ h_owed' = [o \in Objs |-> h_owed[o] - Occurs(gc_list, o)]
            /\ h_syncs' = [o \in Objs |-> IF o \in Range(gc_list) THEN -1 ELSE h_syncs[o]]
            /\ h_held' = h_held \ Range(gc_list)
            /\ h_stage' = [o \in Objs |-> IF o \in Range(gc_list) THEN -1 ELSE h_stage[o]]
            /\ h_call' = IF h_call.run
                         THEN [h_call EXCEPT !.run = FALSE, !.rec = Range(gc_list),
                                             !.low = LowestOf({h_syncs[o] : o \in Range(gc_list)}),
                                             !.cb = @ + 1]
                         ELSE h_call
    /\ SyncLocalsDie(t)
    /\ UNCHANGED <<ebrVars, limbo, visible, obj_gc_epoch, qsbrVars, e_epoch, a_obj,
                   l_head, in_full, seen, h_hold, h_track, freed, h_true, h_count, h_done, h_overlap, h_bar>>

\* gc_cycle(): gc_list = gc->epoch_list[gc_epoch]; with nothing to reclaim and
\* count-- non-zero try the next epoch, otherwise run the reclaim callback on
\* the list, clear it and return.
CycleReclaim(t) ==
    /\ pc[t] = "cyc_reclaim"
    /\ LET gc_list == epoch_list[s_out[t]] IN
       IF gc_list = <<>> /\ c_count[t] # 0
       THEN /\ c_count' = [c_count EXCEPT ![t] = @ - 1]
            /\ pc' = [pc EXCEPT ![t] = "sync_load"]
            /\ UNCHANGED <<epoch_list, ptr, h_owed, h_syncs, h_call, h_held, h_stage>>
       ELSE /\ ptr' = gc_func(gc_list)
            /\ epoch_list' = [epoch_list EXCEPT ![s_out[t]] = <<>>]
            /\ c_count' = [c_count EXCEPT ![t] = 0]
            /\ pc' = [pc EXCEPT ![t] = CycleEnd(t)]
            /\ h_owed' = [o \in Objs |-> h_owed[o] - Occurs(gc_list, o)]
            /\ h_syncs' = [o \in Objs |-> IF o \in Range(gc_list) THEN -1 ELSE h_syncs[o]]
            /\ h_held' = h_held \ Range(gc_list)
            /\ h_stage' = [o \in Objs |-> IF o \in Range(gc_list) THEN -1 ELSE h_stage[o]]
            /\ h_call' = IF h_call.run
                         THEN [h_call EXCEPT !.run = FALSE, !.rec = Range(gc_list),
                                             !.low = LowestOf({h_syncs[o] : o \in Range(gc_list)}),
                                             !.cb = @ + 1]
                         ELSE h_call
    /\ SyncLocalsDie(t)
    /\ UNCHANGED <<ebrVars, limbo, visible, obj_gc_epoch, qsbrVars, e_epoch, a_obj,
                   l_head, in_full, seen, h_hold, h_track, freed, h_true, h_count, h_done, h_overlap, h_bar>>

\* gc_full() is called: it runs a G/C cycle.
GcFullBegin(t) ==
    /\ pc[t] = "idle"
    /\ ~GcBusy
    /\ in_full' = [in_full EXCEPT ![t] = TRUE]
    /\ pc' = [pc EXCEPT ![t] = "sync_load"]
    /\ c_count' = [c_count EXCEPT ![t] = CycleCount]
    /\ h_call' = HCallStart(t)
    /\ UNCHANGED <<ebrVars, gcVars, objVars, qsbrVars, syncVars, e_epoch, a_obj, l_head,
                   seen, h_syncs, h_owed, h_hold, h_held, h_track, moreVars>>

\* A check that forgets the limbo list.
FullDoneBinsOnly == \A i \in Epochs : epoch_list[i] = <<>>

\* gc_full(): the check of all epochs and the limbo list after a cycle.
FullDone == (\A i \in Epochs : epoch_list[i] = <<>>) /\ limbo = <<>>

\* gc_destroy(): its assertions.
GcDestroyAsserts == (\A i \in Epochs : epoch_list[i] = <<>>) /\ limbo = <<>>

\* gc_full(): objects are waiting: back off and run another cycle; none: return.
FullCheck(t) ==
    /\ pc[t] = "full_check"
    /\ IF ~FullDone
       THEN /\ pc' = [pc EXCEPT ![t] = "sync_load"]
            /\ c_count' = [c_count EXCEPT ![t] = CycleCount]
            /\ h_call' = HCallStart(t)
       ELSE /\ pc' = [pc EXCEPT ![t] = "full_ret"]
            /\ UNCHANGED <<c_count, h_call>>
    /\ UNCHANGED <<ebrVars, gcVars, objVars, qsbrVars, syncVars, e_epoch, a_obj, l_head,
                   in_full, seen, h_syncs, h_owed, h_hold, h_held, h_track, moreVars>>

\* gc_cycle() or gc_full() has returned to its caller.
GcReturn(t) ==
    /\ pc[t] \in {"cyc_ret", "full_ret"}
    /\ pc' = [pc EXCEPT ![t] = "idle"]
    /\ in_full' = [in_full EXCEPT ![t] = FALSE]
    /\ h_call' = IF h_call.who = t THEN HCallNone ELSE h_call
    /\ UNCHANGED <<ebrVars, gcVars, objVars, qsbrVars, syncVars, e_epoch, a_obj, l_head,
                   c_count, seen, h_syncs, h_owed, h_hold, h_held, h_track, moreVars>>

\* --------------------------------------------------------- t_stress.c
\* mock_insert_obj(): obj->ptr = &magic_val; obj->visible = true.  gc_writer()
\* inserts an object that is not visible and whose ptr is NULL.
MockInsert(t, o) ==
    /\ pc[t] = "idle"
    /\ ~visible[o] /\ ~ptr[o]
    /\ ptr' = [ptr EXCEPT ![o] = TRUE]
    /\ visible' = [visible EXCEPT ![o] = TRUE]
    /\ UNCHANGED <<ebrVars, gcVars, obj_gc_epoch, qsbrVars, pc, syncVars, localVars, histVars,
                   moreVars>>

\* gc_writer() on a visible object: mock_remove_obj(), then gc_limbo().
GcRemove(t, o) ==
    /\ pc[t] = "idle"
    /\ visible[o]
    /\ visible' = [visible EXCEPT ![o] = FALSE]
    /\ a_obj' = [a_obj EXCEPT ![t] = o]
    /\ pc' = [pc EXCEPT ![t] = "limbo_load"]
    /\ UNCHANGED <<ebrVars, gcVars, ptr, obj_gc_epoch, qsbrVars, syncVars, e_epoch, l_head,
                   c_count, in_full, histVars, moreVars>>

\* access_obj() inside a critical section: the load of obj->visible.  An
\* object that is not visible is left alone.
AccessObj(t, o) ==
    /\ pc[t] = "idle"
    /\ local_epoch[t].active
    /\ visible[o]
    /\ a_obj' = [a_obj EXCEPT ![t] = o]
    /\ seen' = [seen EXCEPT ![t] = @ \cup {o}]
    /\ pc' = [pc EXCEPT ![t] = "deref"]
    /\ UNCHANGED <<ebrVars, gcVars, objVars, qsbrVars, syncVars, e_epoch, l_head, c_count,
                   in_full, h_syncs, h_owed, h_hold, h_call, h_held, h_track, moreVars>>

\* access_obj(): *obj->ptr != MAGIC_VAL aborts; with ptr NULL it is a fault.
DerefFaults(t) == pc[t] = "deref" /\ ~ptr[a_obj[t]]

\* access_obj(): the load through obj->ptr.
Deref(t) ==
    /\ pc[t] = "deref"
    /\ a_obj' = [a_obj EXCEPT ![t] = NULL]
    /\ pc' = [pc EXCEPT ![t] = "idle"]
    /\ UNCHANGED <<ebrVars, gcVars, objVars, qsbrVars, syncVars, e_epoch, l_head, c_count,
                   in_full, histVars, moreVars>>

\* EPOCH_OFF of t_stress.c.
EPOCH_OFF == EBR_EPOCHS

\* A tag taken from the reclaim epoch instead of the staging epoch.
RemovalTagGc == EBR_EPOCHS + ebr_gc_epoch

\* ebr_writer(): obj->gc_epoch = EBR_EPOCHS + ebr_staging_epoch(ebr).
RemovalTag == EBR_EPOCHS + ebr_staging_epoch

\* ebr_writer(target), up to the call of ebr_sync(): remove a visible object
\* and tag it, insert an object that is neither visible nor tagged, leave a
\* tagged one alone.  Only the writer stores the global epoch, so its load in
\* ebr_staging_epoch() goes with the store to obj->visible.
EbrWriterBegin(t, o) ==
    /\ pc[t] = "idle"
    /\ IF visible[o]
       THEN /\ visible' = [visible EXCEPT ![o] = FALSE]
            /\ obj_gc_epoch' = [obj_gc_epoch EXCEPT ![o] = RemovalTag]
            /\ UNCHANGED ptr
       ELSE IF obj_gc_epoch[o] = 0
       THEN /\ ptr' = [ptr EXCEPT ![o] = TRUE]
            /\ visible' = [visible EXCEPT ![o] = TRUE]
            /\ UNCHANGED obj_gc_epoch
       ELSE UNCHANGED objVars
    /\ a_obj' = [a_obj EXCEPT ![t] = o]
    /\ pc' = [pc EXCEPT ![t] = "sync_load"]
    /\ UNCHANGED <<ebrVars, gcVars, qsbrVars, syncVars, e_epoch, l_head, c_count, in_full,
                   histVars, moreVars>>

\* ebr_writer(), after ebr_sync(ebr, &epoch) whatever it returned: the loop
\* tests obj->gc_epoch == EPOCH_OFF + epoch for the target object (DS_COUNT
\* times the same test) and destroys it: mock_destroy_obj(), gc_epoch = 0.
EbrWriterEnd(t) ==
    /\ pc[t] = "sync_ret"
    /\ LET obj == a_obj[t] IN
       IF obj_gc_epoch[obj] = EPOCH_OFF + s_out[t]
       THEN /\ ptr' = [ptr EXCEPT ![obj] = FALSE]
            /\ obj_gc_epoch' = [obj_gc_epoch EXCEPT ![obj] = 0]
       ELSE UNCHANGED <<ptr, obj_gc_epoch>>
    /\ pc' = [pc EXCEPT ![t] = "ew_ret"]
    /\ UNCHANGED <<ebrVars, gcVars, visible, qsbrVars, syncVars, localVars, histVars, moreVars>>

\* ebr_writer() returns.
EbrWriterReturn(t) ==
    /\ pc[t] = "ew_ret"
    /\ pc' = [pc EXCEPT ![t] = "idle"]
    /\ a_obj' = [a_obj EXCEPT ![t] = NULL]
    /\ SyncLocalsDie(t)
    /\ UNCHANGED <<ebrVars, gcVars, objVars, qsbrVars, e_epoch, l_head, c_count, in_full,
                   histVars, moreVars>>

\* ------------------------------------------------------------ qsbr.c
\* The slots are plain 64-bit words: a load that races with a store yields
\* the value before or the value after it, which is what the interleaving of
\* the steps below gives.

\* A register that starts the slot at the first epoch after the current one.
QsbrRegisterAhead(t) ==
    /\ pc[t] = "idle"
    /\ t \notin Range(q_list)
    /\ q_local' = [q_local EXCEPT ![t] = q_global + 1]
    /\ q_list' = <<t>> \o q_list
    /\ h_since' = [h_since EXCEPT ![t] = 0]
    /\ UNCHANGED <<ebrVars, gcVars, objVars, q_global, q_target, h_scan0, pc, syncVars,
                   localVars, histVars, moreVars>>

\* qsbr_register(): memset the slot to zero, insert it at the head of the list.
QsbrRegister(t) ==
    /\ pc[t] = "idle"
    /\ t \notin Range(q_list)
    /\ q_local' = [q_local EXCEPT ![t] = 0]
    /\ q_list' = <<t>> \o q_list
    /\ h_since' = [h_since EXCEPT ![t] = 0]
    /\ UNCHANGED <<ebrVars, gcVars, objVars, q_global, q_target, h_scan0, pc, syncVars,
                   localVars, histVars, moreVars>>

\* A checkpoint that does not observe the global epoch: the slot keeps the
\* value that was in the register.
QsbrCheckpointBlind(t) ==
    /\ pc[t] \in {"idle", "qsync_cp"}
    /\ t \in Range(q_list)
    /\ e_epoch' = [e_epoch EXCEPT ![t] = 0]
    /\ pc' = [pc EXCEPT ![t] = IF pc[t] = "idle" THEN "cp_store" ELSE "qsync_store"]
    /\ UNCHANGED <<ebrVars, gcVars, objVars, qsbrVars, syncVars, a_obj, l_head, c_count,
                   in_full, histVars, moreVars>>

\* qsbr_checkpoint(), first half: load qs->global_epoch.  Called by a worker
\* or, first thing, by qsbr_sync().
QsbrCheckpointLoad(t) ==
    /\ pc[t] \in {"idle", "qsync_cp"}
    /\ t \in Range(q_list)
    /\ e_epoch' = [e_epoch EXCEPT ![t] = q_global]
    /\ pc' = [pc EXCEPT ![t] = IF pc[t] = "idle" THEN "cp_store" ELSE "qsync_store"]
    /\ UNCHANGED <<ebrVars, gcVars, objVars, qsbrVars, syncVars, a_obj, l_head, c_count,
                   in_full, histVars, moreVars>>

\* qsbr_checkpoint(), second half: store the value into t->local_epoch.  In
\* qsbr_sync() the walk over the list begins; nobody but the caller reads the
\* caller's slot, so the load of the list head goes with the store.
QsbrCheckpointStore(t) ==
    /\ pc[t] \in {"cp_store", "qsync_store"}
    /\ q_local' = [q_local EXCEPT ![t] = e_epoch[t]]
    /\ h_since' = [h_since EXCEPT ![t] = e_epoch[t]]
    /\ e_epoch' = [e_epoch EXCEPT ![t] = 0]
    /\ IF pc[t] = "cp_store"
       THEN /\ pc' = [pc EXCEPT ![t] = "idle"]
            /\ UNCHANGED <<s_scan, h_scan0>>
       ELSE /\ pc' = [pc EXCEPT ![t] = "qsync_scan"]
            /\ s_scan' = [s_scan EXCEPT ![t] = q_list]
            /\ h_scan0' = q_list
    /\ UNCHANGED <<ebrVars, gcVars, objVars, q_global, q_list, q_target, s_epoch, s_ret,
                   s_out, a_obj, l_head, c_count, in_full, histVars, moreVars>>

\* A barrier that returns the generation before its increment.
BarrierTargetOld(g) == g

\* qsbr_barrier(): atomic_fetch_add(&qs->global_epoch, 1) + 1.
BarrierTarget(g) == g + 1

\* A test that lets a slot one generation behind pass.
QNotReadyLax(local, target) == local + 1 < target

\* qsbr_sync(): if (t->local_epoch < target), not ready to G/C.
QNotReady(local, target) == local < target

\* qsbr_sync(): one turn of LIST_FOREACH; false at the first slot that is
\* behind the target, true after the last slot.
QSyncScan(t) ==
    /\ pc[t] = "qsync_scan"
    /\ IF QNotReady(q_local[Head(s_scan[t])], q_target[t])
       THEN /\ s_ret' = [s_ret EXCEPT ![t] = FALSE]
            /\ s_scan' = [s_scan EXCEPT ![t] = <<>>]
            /\ pc' = [pc EXCEPT ![t] = "qsync_ret"]
       ELSE /\ s_scan' = [s_scan EXCEPT ![t] = Tail(s_scan[t])]
            /\ s_ret' = [s_ret EXCEPT ![t] = Tail(s_scan[t]) = <<>>]
            /\ pc' = [pc EXCEPT ![t] =
                        IF Tail(s_scan[t]) = <<>> THEN "qsync_ret" ELSE "qsync_scan"]
    /\ UNCHANGED <<ebrVars, gcVars, objVars, qsbrVars, s_epoch, s_out, localVars, histVars, moreVars>>

\* ------------------------------------------- t_stress.c, the QSBR test
\* qsbr_writer() on a visible object: mock_remove_obj().  The writer is
\* registered (qsbr_stress() registers before anything else).
QsbrWriterRemove(t, o) ==
    /\ pc[t] = "idle"
    /\ t \in Range(q_list)
    /\ visible[o]
    /\ q_global < MaxGen
    /\ visible' = [visible EXCEPT ![o] = FALSE]
    /\ a_obj' = [a_obj EXCEPT ![t] = o]
    /\ pc' = [pc EXCEPT ![t] = "q_barrier"]
    /\ UNCHANGED <<ebrVars, gcVars, ptr, obj_gc_epoch, qsbrVars, syncVars, e_epoch, l_head,
                   c_count, in_full, histVars, moreVars>>

\* qsbr_writer(): target_epoch = qsbr_barrier(qsbr).
QsbrBarrier(t) ==
    /\ pc[t] = "q_barrier"
    /\ q_global' = q_global + 1
    /\ q_target' = [q_target EXCEPT ![t] = BarrierTarget(q_global)]
    /\ h_since' = [w \in Workers |-> 0]
    /\ h_bar' = Append(h_bar, BarrierTarget(q_global))
    /\ pc' = [pc EXCEPT ![t] = "qsync_cp"]
    /\ UNCHANGED <<ebrVars, gcVars, objVars, q_local, q_list, h_scan0, syncVars, localVars,
                   histVars, freed, h_stage, h_true, h_count, h_done, h_overlap>>

\* qsbr_writer(): qsbr_sync() returned false, call it again (the return on
\* the stop flag, which ends the test, is left out).
QsbrWriterRetry(t) ==
    /\ pc[t] = "qsync_ret"
    /\ ~s_ret[t]
    /\ pc' = [pc EXCEPT ![t] = "qsync_cp"]
    /\ h_scan0' = <<>>
    /\ UNCHANGED <<ebrVars, gcVars, objVars, q_global, q_local, q_list, q_target, h_since,
                   syncVars, localVars, histVars, moreVars>>

\* qsbr_writer(): qsbr_sync() returned true: mock_destroy_obj(), return.
QsbrWriterDestroy(t) ==
    /\ pc[t] = "qsync_ret"
    /\ s_ret[t]
    /\ ptr' = [ptr EXCEPT ![a_obj[t]] = FALSE]
    /\ a_obj' = [a_obj EXCEPT ![t] = NULL]
    /\ q_target' = [q_target EXCEPT ![t] = 0]
    /\ s_ret' = [s_ret EXCEPT ![t] = FALSE]
    /\ h_scan0' = <<>>
    /\ pc' = [pc EXCEPT ![t] = "idle"]
    /\ UNCHANGED <<ebrVars, gcVars, visible, obj_gc_epoch, q_global, q_local, q_list,
                   h_since, s_epoch, s_scan, s_out, e_epoch, l_head, c_count, in_full,
                   histVars, moreVars>>

\* qsbr_stress(), a reader: access_obj() outside any critical section, the
\* load of obj->visible.
QsbrAccessObj(t, o) ==
    /\ pc[t] = "idle"
    /\ t \in Range(q_list)
    /\ visible[o]
    /\ a_obj' = [a_obj EXCEPT ![t] = o]
    /\ pc' = [pc EXCEPT ![t] = "deref"]
    /\ UNCHANGED <<ebrVars, gcVars, objVars, qsbrVars, syncVars, e_epoch, l_head, c_count,
                   in_full, histVars, moreVars>>

\* The calls of qsbr_barrier() that have begun and not yet incremented.
BarrierCallers == {u \in Workers : pc[u] = "q_barrier"}

\* Any registered worker calls qsbr_barrier(); the number of calls is capped.
QsbrBarrierBegin(t) ==
    /\ pc[t] = "idle"
    /\ t \in Range(q_list)
    /\ q_global + Cardinality(BarrierCallers) < MaxGen
    /\ pc' = [pc EXCEPT ![t] = "q_barrier"]
    /\ UNCHANGED <<ebrVars, gcVars, objVars, qsbrVars, syncVars, localVars, histVars,
                   moreVars>>

\* qsbr_sync() returns to a caller that does not retry: the target is
\* dropped.
QsbrSyncReturn(t) ==
    /\ pc[t] = "qsync_ret"
    /\ q_target' = [q_target EXCEPT ![t] = 0]
    /\ s_ret' = [s_ret EXCEPT ![t] = FALSE]
    /\ h_scan0' = <<>>
    /\ h_done' = {}
    /\ pc' = [pc EXCEPT ![t] = "idle"]
    /\ UNCHANGED <<ebrVars, gcVars, objVars, q_global, q_local, q_list, h_since,
                   s_epoch, s_scan, s_out, localVars, histVars, freed, h_stage, h_true,
                   h_count, h_overlap, h_bar>>

\* qsbr_sync() returned true and the caller is done with the target.
QsbrSyncDone(t) == s_ret[t] /\ QsbrSyncReturn(t)

\* qsbr_sync() returned true and the caller calls it again with the same
\* target.
QsbrSyncRepeat(t) ==
    /\ pc[t] = "qsync_ret"
    /\ s_ret[t]
    /\ pc' = [pc EXCEPT ![t] = "qsync_cp"]
    /\ s_ret' = [s_ret EXCEPT ![t] = FALSE]
    /\ h_done' = IF h_done = {} THEN Range(h_scan0) ELSE h_done
    /\ h_scan0' = <<>>
    /\ UNCHANGED <<ebrVars, gcVars, objVars, q_global, q_local, q_list, q_target, h_since,
                   s_epoch, s_scan, s_out, localVars, histVars, freed, h_stage, h_true,
                   h_count, h_overlap, h_bar>>

\* ------------------------------------------------- the G/C engine at work
\* The state after ebr_create()/gc_create()/qsbr_create() and the memset of
\* ds[] in run_test(): everything zero, the QSBR global epoch 1.
InitState ==
    /\ global_epoch = 0
    /\ local_epoch = [w \in Workers |-> Inactive]
    /\ list = <<>>
    /\ list_loop = 0
    /\ limbo = <<>>
    /\ epoch_list = [e \in Epochs |-> <<>>]
    /\ visible = [o \in Objs |-> FALSE]
    /\ ptr = [o \in Objs |-> FALSE]
    /\ obj_gc_epoch = [o \in Objs |-> 0]
    /\ q_global = QSBR_FIRST_EPOCH
    /\ q_local = [w \in Workers |-> 0]
    /\ q_list = <<>>
    /\ q_target = [w \in Workers |-> 0]
    /\ h_since = [w \in Workers |-> 0]
    /\ h_scan0 = <<>>
    /\ pc = [w \in Workers |-> "idle"]
    /\ e_epoch = [w \in Workers |-> 0]
    /\ a_obj = [w \in Workers |-> NULL]
    /\ l_head = [w \in Workers |-> NULL]
    /\ s_epoch = [w \in Workers |-> 0]
    /\ s_scan = [w \in Workers |-> <<>>]
    /\ s_ret = [w \in Workers |-> FALSE]
    /\ s_out = [w \in Workers |-> 0]
    /\ c_count = [w \in Workers |-> 0]
    /\ in_full = [w \in Workers |-> FALSE]
    /\ seen = [w \in Workers |-> {}]
    /\ h_syncs = [o \in Objs |-> -1]
    /\ h_owed = [o \in Objs |-> 0]
    /\ h_hold = [w \in Workers |-> {}]
    /\ h_held = {}
    /\ h_call = HCallNone
    /\ freed = {}
    /\ h_stage = [o \in Objs |-> -1]
    /\ h_true = [w \in Workers |-> 0]
    /\ h_overlap = FALSE
    /\ h_bar = <<>>
    /\ h_done = {}

Init == InitState /\ h_track = FALSE /\ h_count = FALSE

\* gc_stress(): gc_register(), then the writer runs gc_writer() (insert, or
\* remove and gc_limbo(), then gc_cycle()) and a reader runs
\* gc_crit_enter(); access_obj(); gc_crit_exit().
Next ==
    \/ \E t \in Workers : EbrRegister(t)
    \/ \E t \in Readers : EbrEnterLoad(t)
    \/ \E t \in Readers : EbrEnterStore(t)
    \/ \E t \in Readers : EbrExit(t)
    \/ \E t \in Readers, o \in Objs : AccessObj(t, o)
    \/ \E t \in Readers : Deref(t)
    \/ \E o \in Objs : MockInsert(Writer, o)
    \/ \E o \in Objs : GcRemove(Writer, o)
    \/ LimboLoad(Writer)
    \/ LimboCas(Writer)
    \/ GcCycleBegin(Writer)
    \/ SyncLoad(Writer)
    \/ SyncScan(Writer)
    \/ SyncStore(Writer)
    \/ CycleNotReady(Writer)
    \/ CycleStage(Writer)
    \/ CycleReclaim(Writer)
    \/ GcReturn(Writer)

Spec == Init /\ [][Next]_vars

\* ------------------------------------------- the G/C engine, any caller
\* The workers that use the engine freely.
GcWorkers == {w \in Workers : w < NGcWorkers}

InitGc == InitState /\ h_track = TRUE /\ h_count = FALSE

\* Every worker may register, run critical sections and retire objects with
\* gc_limbo(); gc_cycle() and gc_full() are called by one worker, the writer,
\* as in gc_writer() and run_test().
NextGc ==
    \/ \E t \in GcWorkers :
        \/ EbrRegister(t)
        \/ EbrEnterLoad(t)
        \/ EbrEnterStore(t)
        \/ EbrExit(t)
        \/ \E o \in Objs : MockInsert(t, o)
        \/ \E o \in Objs : GcRemove(t, o)
        \/ LimboLoad(t)
        \/ LimboCas(t)
    \/ \E t \in {Writer} :
        \/ GcCycleBegin(t)
        \/ SyncLoad(t)
        \/ SyncScan(t)
        \/ SyncStore(t)
        \/ CycleNotReady(t)
        \/ CycleStage(t)
        \/ CycleReclaim(t)
        \/ GcFullBegin(t)
        \/ FullCheck(t)
        \/ GcReturn(t)

SpecGc == InitGc /\ [][NextGc]_vars

\* ------------------------------------------------ the EBR stress test
\* ebr_stress(): ebr_register(), then the writer runs ebr_writer() on some
\* object (the test takes them in turn) and a reader runs ebr_enter();
\* access_obj(); ebr_exit().
NextEbr ==
    \/ \E t \in Workers : EbrRegister(t)
    \/ \E t \in Readers : EbrEnterLoad(t)
    \/ \E t \in Readers : EbrEnterStore(t)
    \/ \E t \in Readers : EbrExit(t)
    \/ \E t \in Readers, o \in Objs : AccessObj(t, o)
    \/ \E t \in Readers : Deref(t)
    \/ \E o \in Objs : EbrWriterBegin(Writer, o)
    \/ SyncLoad(Writer)
    \/ SyncScan(Writer)
    \/ SyncStore(Writer)
    \/ EbrWriterEnd(Writer)
    \/ EbrWriterReturn(Writer)

SpecEbr == Init /\ [][NextEbr]_vars

\* ----------------------------------------------- the QSBR stress test
\* qsbr_stress(): qsbr_register(), then the writer runs qsbr_writer() on some
\* object and a reader runs access_obj(); qsbr_checkpoint().
NextQsbr ==
    \/ \E t \in Workers : QsbrRegister(t)
    \/ \E t \in Workers : QsbrCheckpointLoad(t)
    \/ \E t \in Workers : QsbrCheckpointStore(t)
    \/ \E t \in Readers, o \in Objs : QsbrAccessObj(t, o)
    \/ \E t \in Readers : Deref(t)
    \/ \E o \in Objs : MockInsert(Writer, o)
    \/ \E o \in Objs : QsbrWriterRemove(Writer, o)
    \/ QsbrBarrier(Writer)
    \/ QSyncScan(Writer)
    \/ QsbrWriterRetry(Writer)
    \/ QsbrWriterDestroy(Writer)

SpecQsbr == Init /\ [][NextQsbr]_vars

\* ------------------------------------------------- EBR used on its own
\* Readers register and run critical sections; the writer calls ebr_sync()
\* again and again.
InitSync == InitState /\ h_track = FALSE /\ h_count = TRUE

NextSync ==
    \/ \E t \in Readers : EbrRegister(t)
    \/ \E t \in Readers : EbrEnterLoad(t)
    \/ \E t \in Readers : EbrEnterStore(t)
    \/ \E t \in Readers : EbrExit(t)
    \/ SyncBegin(Writer)
    \/ SyncLoad(Writer)
    \/ SyncScan(Writer)
    \/ SyncStore(Writer)
    \/ SyncReturn(Writer)

SpecSync == InitSync /\ [][NextSync]_vars

\* ------------------------------------------- workers that come and go
\* Readers register, run critical sections, unregister or end their thread;
\* the writer, which outlives them as the main thread of run_test() does,
\* calls ebr_sync().
NextLeave ==
    \/ \E t \in Readers : EbrRegister(t)
    \/ \E t \in Readers : EbrEnterLoad(t)
    \/ \E t \in Readers : EbrEnterStore(t)
    \/ \E t \in Readers : EbrExit(t)
    \/ \E t \in Readers : EbrUnregister(t)
    \/ \E t \in Readers : ThreadExit(t)
    \/ SyncBegin(Writer)
    \/ SyncLoad(Writer)
    \/ SyncScan(Writer)
    \/ SyncScanFreed(Writer)
    \/ SyncStore(Writer)
    \/ SyncReturn(Writer)

SpecLeave == Init /\ [][NextLeave]_vars

\* ------------------------------------------------- QSBR that goes on
\* Workers register and pass checkpoints; the writer takes a target from
\* qsbr_barrier() and calls qsbr_sync() on it until it returns true, as
\* qsbr_writer() does, and then may call it again.
NextQsbrLive ==
    \/ \E t \in Workers : QsbrRegister(t)
    \/ \E t \in Workers : QsbrCheckpointLoad(t)
    \/ \E t \in Workers : QsbrCheckpointStore(t)
    \/ QsbrBarrierBegin(Writer)
    \/ QsbrBarrier(Writer)
    \/ QSyncScan(Writer)
    \/ QsbrWriterRetry(Writer)
    \/ QsbrSyncRepeat(Writer)
    \/ QsbrSyncDone(Writer)

\* Every thread is scheduled again and again: a registered worker goes on
\* to its next checkpoint, the writer to the next step of its loop.
FairQsbr ==
    /\ \A t \in Workers : WF_vars(QsbrCheckpointLoad(t))
    /\ \A t \in Workers : WF_vars(QsbrCheckpointStore(t))
    /\ WF_vars(QSyncScan(Writer))
    /\ WF_vars(QsbrWriterRetry(Writer))

SpecQsbrLive == Init /\ [][NextQsbrLive]_vars /\ FairQsbr

\* ----------------------------------------------- gc_full() that goes on
\* The readers register; the first one runs critical sections, the last
\* one retires objects with gc_limbo(); the writer calls gc_full().
NextGcLive ==
    \/ \E t \in Readers : EbrRegister(t)
    \/ EbrEnterLoad(1)
    \/ EbrEnterStore(1)
    \/ EbrExit(1)
    \/ \E o \in Objs : MockInsert(NReaders, o)
    \/ \E o \in Objs : GcRemove(NReaders, o)
    \/ LimboLoad(NReaders)
    \/ LimboCas(NReaders)
    \/ GcFullBegin(Writer)
    \/ SyncLoad(Writer)
    \/ SyncScan(Writer)
    \/ SyncStore(Writer)
    \/ CycleNotReady(Writer)
    \/ CycleStage(Writer)
    \/ CycleReclaim(Writer)
    \/ FullCheck(Writer)
    \/ GcReturn(Writer)

\* Every thread is scheduled again and again: a worker inside a critical
\* section goes on to its ebr_exit(), the writer to the next step of
\* gc_full().  Nothing makes a worker enter a critical section or retire an
\* object.
FairGc ==
    /\ \A t \in Readers : WF_vars(EbrEnterStore(t))
    /\ \A t \in Readers : WF_vars(EbrExit(t))
    /\ WF_vars(SyncLoad(Writer))
    /\ WF_vars(SyncScan(Writer))
    /\ WF_vars(SyncStore(Writer))
    /\ WF_vars(CycleNotReady(Writer))
    /\ WF_vars(CycleStage(Writer))
    /\ WF_vars(CycleReclaim(Writer))
    /\ WF_vars(FullCheck(Writer))

SpecGcLive == Init /\ [][NextGcLive]_vars /\ FairGc

\* ------------------------------------------- a worker registers twice
\* Readers register, register again, and run critical sections; the writer
\* calls ebr_sync().
NextAgain ==
    \/ \E t \in Readers : EbrRegister(t)
    \/ \E t \in Readers : EbrRegisterAgainCall(t)
    \/ \E t \in Readers : EbrRegisterAgain(t)
    \/ \E t \in Readers : EbrEnterLoad(t)
    \/ \E t \in Readers : EbrEnterStore(t)
    \/ \E t \in Readers : EbrExit(t)
    \/ SyncBegin(Writer)
    \/ SyncLoad(Writer)
    \/ SyncScan(Writer)
    \/ SyncStore(Writer)
    \/ SyncReturn(Writer)

SpecAgain == Init /\ [][NextAgain]_vars

\* --------------------------------------- every call that meets an epoch
\* The writer retires objects with gc_limbo() and runs gc_cycle(); the
\* readers register, run critical sections and unregister.
NextFrame ==
    \/ \E t \in Workers : EbrRegister(t)
    \/ \E t \in Readers : EbrUnregister(t)
    \/ \E t \in Readers : EbrEnterLoad(t)
    \/ \E t \in Readers : EbrEnterStore(t)
    \/ \E t \in Readers : EbrExit(t)
    \/ \E o \in Objs : MockInsert(Writer, o)
    \/ \E o \in Objs : GcRemove(Writer, o)
    \/ LimboLoad(Writer)
    \/ LimboCas(Writer)
    \/ GcCycleBegin(Writer)
    \/ SyncLoad(Writer)
    \/ SyncScan(Writer)
    \/ SyncScanFreed(Writer)
    \/ SyncStore(Writer)
    \/ CycleNotReady(Writer)
    \/ CycleStage(Writer)
    \/ CycleReclaim(Writer)
    \/ GcReturn(Writer)

SpecFrame == Init /\ [][NextFrame]_vars

\* ------------------------------------ the G/C engine without a lock
\* Two workers call gc_cycle() whenever they like, so that their calls may
\* overlap; one of them, the writer, also retires objects, and the other
\* runs critical sections.
NextGcAny ==
    \/ \E t \in GcWorkers : EbrRegister(t)
    \/ \E t \in GcWorkers \ {Writer} :
        \/ EbrEnterLoad(t)
        \/ EbrEnterStore(t)
        \/ EbrExit(t)
    \/ \E o \in Objs : MockInsert(Writer, o)
    \/ \E o \in Objs : GcRemove(Writer, o)
    \/ LimboLoad(Writer)
    \/ LimboCas(Writer)
    \/ \E t \in GcWorkers :
        \/ GcCycleBeginAny(t)
        \/ SyncLoad(t)
        \/ SyncScan(t)
        \/ SyncStore(t)
        \/ CycleNotReady(t)
        \/ CycleStage(t)
        \/ CycleReclaim(t)
        \/ GcReturn(t)

SpecGcAny == Init /\ [][NextGcAny]_vars

\* ----------------------------------------------- QSBR used on its own
\* Every worker registers, passes checkpoints, and calls qsbr_barrier() and
\* then qsbr_sync() on the target it got, with no lock around the calls.
NextQsbrAny ==
    \/ \E t \in Workers : QsbrRegister(t)
    \/ \E t \in Workers : QsbrCheckpointLoad(t)
    \/ \E t \in Workers : QsbrCheckpointStore(t)
    \/ \E t \in Workers : QsbrBarrierBegin(t)
    \/ \E t \in Workers : QsbrBarrier(t)
    \/ \E t \in Workers : QSyncScan(t)
    \/ \E t \in Workers : QsbrWriterRetry(t)
    \/ \E t \in Workers : QsbrSyncReturn(t)

SpecQsbrAny == Init /\ [][NextQsbrAny]_vars

\* ------------------------------------------------------ the properties
\* How often an entry occurs on the limbo list and the epoch lists together.
Places(o) ==
    Occurs(limbo, o) + Occurs(epoch_list[0], o) + Occurs(epoch_list[1], o)
        + Occurs(epoch_list[2], o)

\* o is handed to the reclaim callback by this step.
Reclaimed(o) == h_owed'[o] < h_owed[o]

\* C1: with gc_cycle() calls serialised, no object is destroyed by the reclaim
\* callback while a reader that read it visible inside a critical section is
\* still inside that critical section, and no reader loads through the ptr of
\* a destroyed object.
C1_GcSafety ==
    \A w \in Workers : (\A o \in seen[w] : ptr[o]) /\ ~DerefFaults(w)

\* A reader holds an object that has since been removed and staged, and
\* ebr_sync() has just refused to announce an epoch.
C1_Witness ==
    \E w \in Readers, o \in Objs :
        /\ o \in seen[w] /\ ~visible[o] /\ o \in InBins
        /\ pc[Writer] = "sync_ret" /\ ~s_ret[Writer]

\* C4: an object handed to the reclaim callback has seen at least two
\* successful ebr_sync() calls complete since its gc_limbo() call completed.
C4_TwoSyncs == [][\A o \in Objs : Reclaimed(o) => h_syncs[o] >= 2]_vars

\* A gc_cycle() call has reclaimed an entry that saw exactly two successful
\* ebr_sync() calls after its gc_limbo().
C4_Witness == h_call.rec # {} /\ h_call.low = 2

\* C5: every entry is on the limbo list or on one epoch list exactly once
\* while it is retired and not yet reclaimed, and on none otherwise, an entry
\* is never handed to the reclaim callback more often than it was retired,
\* and when gc_full() returns every completed gc_limbo() call has had its
\* entry handed to the reclaim callback.
C5_NoLossNoDouble ==
    /\ [](\A o \in Objs : h_owed[o] \in {0, 1} /\ Places(o) = h_owed[o])
    /\ [][\A t \in Workers : (pc[t] = "full_check" /\ pc'[t] = "full_ret")
              => \A o \in Objs : h_owed'[o] = 0]_vars

\* gc_full() has returned and its last cycle reclaimed every object.
C5_Witness == \E t \in Workers : pc[t] = "full_ret" /\ h_call.who = t /\ h_call.rec = Objs

\* C9: gc_full() returns only with the limbo list and the three epoch lists
\* empty; every entry pushed before has been handed to the reclaim callback
\* and the assertions of gc_destroy() hold in that state.
C9_FullDrains ==
    [][\A t \in Workers : (pc[t] = "full_check" /\ pc'[t] = "full_ret")
          => /\ limbo' = <<>>
             /\ \A e \in Epochs : epoch_list'[e] = <<>>
             /\ \A o \in Objs : h_owed'[o] = 0
             /\ GcDestroyAsserts']_vars

\* gc_full() has returned after its last cycle reclaimed an entry, while the
\* other worker is between gc_limbo()'s load and its compare-and-swap.
C9_Witness ==
    \E t, u \in Workers :
        pc[t] = "full_ret" /\ h_call.rec # {} /\ pc[u] = "limbo_cas"

\* C10: ebr_gc_epoch() is (global_epoch + 1) mod 3, and ebr_sync() leaves in
\* *gc_epoch (g + 1) mod 3 for the global epoch g after the call, which is the
\* epoch it loaded when it returns false and its successor mod 3 when it
\* returns true.
C10_EpochArithmetic ==
    /\ ebr_gc_epoch = (global_epoch + 1) % 3
    /\ \A t \in Workers : pc[t] = "sync_ret" =>
          /\ s_out[t] = (global_epoch + 1) % 3
          /\ s_ret[t] => global_epoch = (s_epoch[t] + 1) % 3
          /\ ~s_ret[t] => global_epoch = s_epoch[t]

\* ebr_sync() has returned true on the epoch 2, wrapping to 0.
C10_Witness ==
    \E t \in Workers :
        pc[t] = "sync_ret" /\ s_ret[t] /\ s_epoch[t] = 2 /\ global_epoch = 0

\* A gc_cycle() call has returned to gc_cycle()'s caller or to gc_full().
CycleReturned(t) == pc[t] \in {"cyc_ret", "full_check"} /\ h_call.who = t

\* C7: an entry that was in limbo while a worker was inside a critical
\* section is not handed to the reclaim callback while that worker stays in
\* that critical section; and a gc_cycle() call during which no worker is
\* active and which finds that entry the only one pending (on limbo or on an
\* epoch list) hands it to the reclaim callback.
C7_ActiveHoldsOff ==
    /\ [][\A o \in Objs : Reclaimed(o) => \A w \in Workers : o \notin h_hold[w]]_vars
    /\ [](\A t \in Workers :
            (/\ CycleReturned(t) /\ h_call.quiet0 /\ ~h_call.entered
             /\ Cardinality(h_call.limbo0 \cup h_call.bins0) = 1)
            => (h_call.limbo0 \cup h_call.bins0) \subseteq h_call.rec)

\* A gc_cycle() call that began with nobody active has just reclaimed the one
\* pending entry, which an earlier, since finished critical section had held
\* back, on an epoch list.
C7_Witness ==
    \E t \in Workers, o \in Objs :
        /\ CycleReturned(t) /\ h_call.quiet0 /\ ~h_call.entered
        /\ h_call.bins0 = {o} /\ h_call.limbo0 = {} /\ o \in h_call.held0
        /\ h_call.rec = {o}

\* C8: a gc_cycle() call that runs with no worker inside a critical section
\* (none is active as it begins, none is between the load and the store of
\* ebr_enter() then and none calls ebr_enter() while it runs) and that begins
\* with the three epoch lists empty has, when it returns, handed every entry
\* that was in limbo at its start to the reclaim callback, whatever the
\* global epoch was.
C8_QuietCycleReclaims ==
    \A t \in Workers :
        (CycleReturned(t) /\ h_call.quiet0 /\ ~h_call.entered /\ h_call.bins0 = {})
        => h_call.limbo0 \subseteq h_call.rec

\* Such a call has returned after reclaiming two entries, starting from the
\* global epoch 2.
C8_Witness ==
    \E t \in Workers :
        /\ CycleReturned(t) /\ h_call.quiet0 /\ ~h_call.entered /\ h_call.bins0 = {}
        /\ h_call.limbo0 = Objs /\ h_call.rec = Objs /\ global_epoch = 2

\* C2: in the EBR stress test, where the writer tags a removed object with
\* ebr_staging_epoch() and destroys it when the gc_epoch of a later ebr_sync()
\* equals the tag, whatever that ebr_sync() returned, no reader that loaded
\* the object as visible inside a critical section is still in that critical
\* section when the writer destroys the object.
C2_EbrWriterSafe ==
    [][\A o \in Objs : (ptr[o] /\ ~ptr'[o]) => \A w \in Workers : o \notin seen[w]]_vars

\* The writer has destroyed an object after an ebr_sync() that returned
\* false, while a reader is inside a critical section.
C2_Witness ==
    /\ pc[Writer] = "ew_ret" /\ ~s_ret[Writer]
    /\ ~ptr[a_obj[Writer]] /\ ~visible[a_obj[Writer]]
    /\ \E r \in Readers : local_epoch[r].active

\* C3: qsbr_sync(T), T from qsbr_barrier(), returns true only if every worker
\* on the list it walked has, since the increment of that qsbr_barrier(),
\* completed a qsbr_checkpoint() that stored a generation >= T; a worker that
\* has not (one whose slot is still 0 from qsbr_register() included) makes it
\* return false.
C3_QsbrGracePeriod ==
    \A t \in Workers :
        (pc[t] = "qsync_ret" /\ s_ret[t])
        => \A w \in Range(h_scan0) : h_since[w] >= q_target[t]

\* qsbr_sync() of the second generation handed out has returned true with
\* every worker on the list it walked.
C3_Witness ==
    /\ pc[Writer] = "qsync_ret" /\ s_ret[Writer]
    /\ q_target[Writer] = QSBR_FIRST_EPOCH + 2
    /\ Range(h_scan0) = Workers

\* C6: in the QSBR stress test, where the writer removes an object, takes
\* T = qsbr_barrier(), repeats qsbr_sync(T) until it returns true and then
\* destroys the object, no reader dereferences a destroyed object.
C6_QsbrSafety == \A r \in Readers : pc[r] = "deref" => ptr[a_obj[r]]

\* A reader that loaded an object as visible is about to dereference it while
\* the writer, which removed the object meanwhile, finds qsbr_sync() false.
C6_Witness ==
    /\ pc[Writer] = "qsync_ret" /\ ~s_ret[Writer]
    /\ \E r \in Readers : pc[r] = "deref" /\ a_obj[r] = a_obj[Writer]

\* C11 as stated: after a successful ebr_sync() inside gc_cycle(), every entry
\* on the list of the returned gc_epoch was moved there from limbo when the
\* global epoch was (g + 2) mod 3, g the global epoch after that ebr_sync().
C11_StagedTwoAhead ==
    \A t \in Workers :
        (pc[t] = "sync_ret" /\ s_ret[t])
        => \A o \in Range(epoch_list[s_out[t]]) : h_stage[o] = (global_epoch + 2) % 3

\* C11, amended: every such entry was moved there when the global epoch was
\* (g + 1) mod 3, that is g - 2: two announced epochs ago.
C11_StagedTwoBack ==
    \A t \in Workers :
        (pc[t] = "sync_ret" /\ s_ret[t])
        => \A o \in Range(epoch_list[s_out[t]]) : h_stage[o] = (global_epoch + 1) % 3

\* A successful ebr_sync() inside gc_cycle() has returned a gc_epoch whose
\* list holds an entry.
C11_Witness ==
    \E t \in Workers :
        pc[t] = "sync_ret" /\ s_ret[t] /\ epoch_list[s_out[t]] # <<>>

\* C12: an ebr_sync() call returns false only at a step of its scan at which
\* some worker's slot has the active flag set; so a call made while every
\* reader is between its ebr_exit() and the store of its next ebr_enter()
\* returns true, the first such call already, however many critical sections
\* went before.
C12_IdleReadersNoStall ==
    [][\A t \in Workers :
         (pc[t] = "sync_scan" /\ pc'[t] = "sync_ret" /\ ~s_ret'[t])
         => \E w \in Workers : local_epoch[w].active]_vars

\* ebr_sync() has returned true with every reader registered and idle, after
\* the epoch has gone round the clock.
C12_Witness ==
    /\ pc[Writer] = "sync_ret" /\ s_ret[Writer]
    /\ s_epoch[Writer] = 2 /\ global_epoch = 0
    /\ Readers \subseteq Range(list)
    /\ \A r \in Readers : pc[r] = "idle" /\ ~local_epoch[r].active

\* C16: at the step at which ebr_sync() stores the new global epoch e, no
\* registered worker's slot has the active flag with the epoch e - 2, that is
\* (e + 1) mod 3.
C16_NoStaleActive ==
    [][global_epoch' # global_epoch
       => \A w \in Range(list) :
            ~(local_epoch[w].active /\ local_epoch[w].epoch = (global_epoch' + 1) % 3)]_vars

\* C18: while a worker stays inside one critical section, ebr_sync() announces
\* a new epoch at most once.
C18_AtMostOnce == \A w \in Workers : h_true[w] <= 1

\* C13: qsbr_barrier() under concurrent callers.  The global epoch never
\* decreases; a call adds exactly one to it and returns the value right
\* after its own increment; the values returned so far are pairwise distinct
\* and at least 2; after k calls the global epoch is 1 + k.
C13_BarrierCounts ==
    [][/\ q_global' >= q_global
       /\ h_bar' # h_bar =>
            /\ q_global' = q_global + 1
            /\ h_bar' = Append(h_bar, q_global')
            /\ \E t \in Workers : pc[t] = "q_barrier" /\ q_target'[t] = q_global'
       /\ q_global' = QSBR_FIRST_EPOCH + Len(h_bar')
       /\ \A i \in 1..Len(h_bar') : h_bar'[i] >= 2
       /\ \A i, j \in 1..Len(h_bar') : i # j => h_bar'[i] # h_bar'[j]]_vars

\* Two calls overlapped: two workers hold the values they were returned.
C13_Witness ==
    \E t, u \in Workers :
        /\ t # u
        /\ pc[t] = "qsync_cp" /\ pc[u] = "qsync_cp"
        /\ q_target[t] = 2 /\ q_target[u] = 3
        /\ h_bar = <<2, 3>>

\* C14: qsbr_sync() never stalls on its own caller.  During the scan the
\* caller's slot is at least the target it got from qsbr_barrier(); a false
\* return is never caused by the caller's own slot; and when the caller is
\* the only registered worker the call returns true.
C14_NoSelfStall ==
    [][\A t \in Workers :
        /\ pc[t] = "qsync_scan" => q_local[t] >= q_target[t] /\ q_target[t] >= 2
        /\ (pc[t] = "qsync_scan" /\ pc'[t] = "qsync_ret" /\ ~s_ret'[t])
                => Head(s_scan[t]) # t
        /\ (pc[t] = "qsync_scan" /\ pc'[t] = "qsync_ret" /\ q_list = <<t>>)
                => s_ret'[t]]_vars

\* The only registered worker got the target 3 and qsbr_sync() returned
\* true to it.
C14_Witness ==
    \E t \in Workers :
        pc[t] = "qsync_ret" /\ s_ret[t] /\ q_list = <<t>> /\ q_target[t] = 3

\* C17: with the gc_cycle() calls serialised, whenever ebr_sync() has
\* succeeded inside gc_cycle() the bin of the staging epoch (the new global
\* epoch) is empty when the limbo list is about to be moved into it: the
\* assertion of gc_cycle() never fails.
C17_StagingBinEmpty ==
    \A t \in Workers : (pc[t] = "sync_ret" /\ s_ret[t]) => StagingAssert

\* gc_full() is about to stage a non-empty limbo list while another bin
\* holds entries staged earlier.
C17_Witness ==
    \E t \in Workers :
        /\ pc[t] = "sync_ret" /\ s_ret[t] /\ in_full[t]
        /\ limbo # <<>>
        /\ \E e \in Epochs : e # ebr_staging_epoch /\ epoch_list[e] # <<>>

\* C19: a gc_cycle() call loops through the epochs for one full cycle only:
\* by the time it returns it has advanced the global epoch at most
\* EBR_EPOCHS times and has invoked the reclaim callback at most once.
C19_OneFullCycle ==
    \A t \in Workers :
        CycleReturned(t) => h_call.adv <= EBR_EPOCHS /\ h_call.cb <= 1

\* What a step of the engine owes its users: the staging bin is empty when
\* the limbo list is moved into it, the global epoch stays or steps to its successor mod 3,
\* and an entry handed to the reclaim callback was owed (not handed over
\* before) and has seen two epoch advances since it was retired.
GcStepSafe ==
    /\ \A t \in Workers :
          (pc[t] = "sync_ret" /\ s_ret[t] /\ pc'[t] = "cyc_reclaim") => StagingAssert
    /\ global_epoch' \in {global_epoch, NextEpoch(global_epoch)}
    /\ \A o \in Objs : Reclaimed(o) => h_owed'[o] >= 0 /\ h_syncs[o] >= 2

\* C15 as stated: gc_cycle() is safe for any interleaving of calls by
\* different registered workers, overlapping calls included.
C15_AnyInterleavingSafe == [][GcStepSafe]_vars

\* C15, amended: gc_cycle() is safe from any registered worker as long as
\* no two calls have overlapped in time.
C15_SerialisedSafe == [][~h_overlap' => GcStepSafe]_vars

\* No two calls have overlapped; the writer has just returned from a call
\* and the other worker's call is about to hand a non-empty list to the
\* reclaim callback.
C15_Witness ==
    /\ ~h_overlap
    /\ pc[Writer] = "cyc_ret"
    /\ \E t \in GcWorkers \ {Writer} :
          pc[t] = "cyc_reclaim" /\ epoch_list[s_out[t]] # <<>>

\* C20: a slot is on the list of the reclaimer only while its owner is
\* registered: no slot of a thread that has ended, and no freed slot, is on
\* the list, so ebr_sync() never comes to read a freed slot.
C20_NoFreedSlotOnList ==
    /\ \A w \in Range(list) : w \notin freed /\ pc[w] # "exited"
    /\ \A t \in Workers : pc[t] = "sync_scan" => Head(s_scan[t]) \notin freed

\* C24: every registered QSBR slot's local generation is at most the global
\* generation, whatever the interleaving of qsbr_register(),
\* qsbr_checkpoint() (load, then store), qsbr_barrier() and qsbr_sync(); and
\* the local generation of a slot that stays registered never decreases.
C24_LocalAtMostGlobal ==
    [][/\ \A t \in Range(q_list) : q_local[t] <= q_global
       /\ \A t \in Range(q_list') : q_local'[t] <= q_global'
       /\ \A t \in Range(q_list) \cap Range(q_list') : q_local'[t] >= q_local[t]]_vars

\* A slot holds an old generation while another worker is about to store a
\* newer one it loaded, and the global generation has moved on since.
C24_Witness ==
    \E t, u \in Range(q_list) :
        /\ q_local[t] = 1 /\ q_global = 3
        /\ pc[u] = "cp_store" /\ e_epoch[u] = 2 /\ q_local[u] = 1

\* The program points inside ebr_sync() before it returns.
SyncPcs == {"sync_load", "sync_scan", "sync_store"}

\* C25: the EBR global epoch is always one of 0, 1, 2 and changes only in
\* an ebr_sync() that returns true, which sets it to (old + 1) mod 3;
\* ebr_register(), ebr_unregister(), ebr_enter(), ebr_exit(), gc_limbo() and
\* an ebr_sync() that returns false leave it as it is, and no step of
\* ebr_sync() writes a worker's local epoch.
C25_EpochFrame ==
    [][/\ global_epoch \in Epochs /\ global_epoch' \in Epochs
       /\ global_epoch' # global_epoch =>
            /\ global_epoch' = (global_epoch + 1) % 3
            /\ \E t \in Workers :
                  pc[t] = "sync_store" /\ pc'[t] = "sync_ret" /\ s_ret'[t]
       /\ \A t \in Workers :
            (pc[t] \in SyncPcs /\ (pc'[t] # pc[t] \/ s_scan'[t] # s_scan[t]))
                => local_epoch' = local_epoch
       /\ \A t \in Workers :
            (pc[t] \in SyncPcs /\ pc'[t] = "sync_ret" /\ ~s_ret'[t])
                => global_epoch' = global_epoch]_vars

\* The epoch has wrapped round to 0 after a reader unregistered, and an
\* ebr_sync() has just returned false on a reader active in an older epoch.
C25_Witness ==
    /\ pc[Writer] = "sync_ret" /\ ~s_ret[Writer]
    /\ global_epoch = 0
    /\ freed # {}
    /\ limbo # <<>>
    /\ \E r \in Readers : local_epoch[r] = WithActive(2)

\* C21: a second ebr_register() by a worker that is registered already is
\* caught: the call does not modify the worker list and does not reset the
\* local epoch of the slot.
C21_SecondRegisterCaught ==
    [][\A t \in Workers :
        (pc[t] = "reg_again" /\ pc'[t] # "reg_again")
            => /\ list' = list /\ list_loop' = list_loop
               /\ local_epoch'[t] = local_epoch[t]]_vars

\* C23: with every registered worker passing checkpoints again and again
\* and fair scheduling, a writer that repeats qsbr_sync(T) on a target T it
\* got from qsbr_barrier() eventually gets true; and once qsbr_sync(T) has
\* returned true, a later call that finds the same workers registered
\* returns true.
C23_QsbrLive ==
    /\ (pc[Writer] = "qsync_cp" /\ q_target[Writer] >= 2)
            ~> (pc[Writer] = "qsync_ret" /\ s_ret[Writer])
    /\ [](pc[Writer] = "qsync_ret" /\ h_done # {} /\ Range(h_scan0) = h_done
            => s_ret[Writer])

\* With all workers registered, a repeated qsbr_sync() on the target 3 has
\* returned true again.
C23_Witness ==
    /\ pc[Writer] = "qsync_ret" /\ s_ret[Writer]
    /\ q_target[Writer] = 3
    /\ h_done = Workers /\ Range(h_scan0) = Workers

\* No gc_limbo() call is in progress.
LimboQuiet == \A t \in Workers : pc[t] \notin {"limbo_load", "limbo_cas"}

\* C22: if the gc_limbo() calls eventually stop and every worker that enters
\* a critical section eventually exits it, then under fair scheduling a
\* gc_full() call eventually returns, with every retired entry reclaimed.
C22_FullReturns ==
    <>[]LimboQuiet =>
        ((in_full[Writer] /\ pc[Writer] # "full_ret") ~>
            (pc[Writer] = "full_ret" /\ \A o \in Objs : h_owed[o] = 0))

\* gc_full() has returned after it reclaimed both objects, while a worker
\* is inside a critical section.
C22_Witness ==
    /\ pc[Writer] = "full_ret"
    /\ \A o \in Objs : h_owed[o] = 0 /\ ~ptr[o] /\ ~visible[o]
    /\ \E r \in Readers : local_epoch[r].active

====
